---- MODULE Spec2Model ----
(***************************************************************************)
(* Model of the SyfePark parking service (app/main.py, app/utils.py,       *)
(* app/database.py): the USSD / WhatsApp / IVR handlers, the day/night fee *)
(* engine and the duration formatter.                                      *)
(*                                                                         *)
(* Texts are sequences of one-character strings.  Timestamps are whole     *)
(* seconds counted from a midnight, so that t % 86400 is the time of day.  *)
(***************************************************************************)
EXTENDS Integers, Sequences, FiniteSets, TLC

VARIABLES
    storeA,     \* Operator A ("Ridgeways") transactions table: sequence of rows
    storeB,     \* Operator B ("SyfeParking") transactions table: set of plates
    req,        \* the request being handled (its handler's position and locals)
    reply,      \* the reply of the handler that ran last
    log,        \* what the request being handled did so far (pushes, B checks, updates)
    call        \* a call of a pure function: its arguments and its result

vars == <<storeA, storeB, req, reply, log, call>>

(***************************************************************************)
(* Bounds of the model.                                                    *)
(***************************************************************************)
MaxTail == 3        \* characters typed after a USSD path head
MaxMinutes == 250   \* longest stay, in minutes, given to the fee engine
MaxConvert == 130   \* largest minute count given to the duration formatter
MaxTx == 2          \* rows of Operator A's table
MaxMsgs == 2        \* messages of one WhatsApp webhook call
MaxRows == 3        \* rows of the table the IVR's enumeration is called on

(***************************************************************************)
(* Program constants (app/main.py).                                        *)
(***************************************************************************)
FREE_PARKING_MINUTES == 30
FIRST_HOUR_COST == 50
ADDITIONAL_HOUR_COST == 50
DAY_START == 21600
DAY_END == 79200
SecondsPerDay == 86400

(***************************************************************************)
(* Text helpers: the str methods the handlers use.                         *)
(***************************************************************************)
Whitespace == {" ", "\t", "\n"}

RECURSIVE ReplaceSpace(_)
\* str.replace(" ", ""): drops every space character (and only those)
ReplaceSpace(s) ==
    IF s = <<>> THEN <<>>
    ELSE IF Head(s) = " " THEN ReplaceSpace(Tail(s))
    ELSE <<Head(s)>> \o ReplaceSpace(Tail(s))

RECURSIVE RStripHash(_)
\* str.rstrip("#"): drops every trailing '#'
RStripHash(s) ==
    IF s = <<>> THEN <<>>
    ELSE IF s[Len(s)] = "#" THEN RStripHash(SubSeq(s, 1, Len(s) - 1))
    ELSE s

RECURSIVE LStrip(_)
LStrip(s) ==
    IF s = <<>> THEN <<>>
    ELSE IF Head(s) \in Whitespace THEN LStrip(Tail(s))
    ELSE s

RECURSIVE RStrip(_)
RStrip(s) ==
    IF s = <<>> THEN <<>>
    ELSE IF s[Len(s)] \in Whitespace THEN RStrip(SubSeq(s, 1, Len(s) - 1))
    ELSE s

\* str.strip(): drops leading and trailing whitespace
Strip(s) == LStrip(RStrip(s))

\* str.upper() on one character
UpperChar(c) ==
    CASE c = "a" -> "A"
      [] c = "b" -> "B"
      [] c = "k" -> "K"
      [] c = "p" -> "P"
      [] c = "y" -> "Y"
      [] c = "t" -> "T"
      [] c = "i" -> "I"
      [] c = "m" -> "M"
      [] c = "e" -> "E"
      [] c = "o" -> "O"
      [] c = "u" -> "U"
      [] c = "n" -> "N"
      [] OTHER -> c

\* str.lower() on one character
LowerChar(c) ==
    CASE c = "A" -> "a"
      [] c = "B" -> "b"
      [] c = "K" -> "k"
      [] c = "P" -> "p"
      [] c = "Y" -> "y"
      [] c = "T" -> "t"
      [] c = "I" -> "i"
      [] c = "M" -> "m"
      [] c = "E" -> "e"
      [] c = "O" -> "o"
      [] c = "U" -> "u"
      [] c = "N" -> "n"
      [] OTHER -> c

Upper(s) == [i \in 1..Len(s) |-> UpperChar(s[i])]
Lower(s) == [i \in 1..Len(s) |-> LowerChar(s[i])]

(***************************************************************************)
(* The compiled patterns of app/main.py and re.match.                      *)
(***************************************************************************)
StartsWith(s, pre) == Len(s) >= Len(pre) /\ SubSeq(s, 1, Len(pre)) = pre

\* '$' of a Python pattern: the end of the text, or just before a final newline
Dollar(s, i) == i = Len(s) + 1 \/ (i = Len(s) /\ s[i] = "\n")

\* re.match of ^<lit>$
MatchLiteral(lit, s) == StartsWith(s, lit) /\ Dollar(s, Len(lit) + 1)

\* the text after the literal part of a pattern: what the group has to take
Rest(head, s) == SubSeq(s, Len(head) + 1, Len(s))

\* MatchInput with a group that takes any character
MatchInput_AnyRest(head, s) == StartsWith(s, head) /\ Rest(head, s) # <<>>

\* re.match of ^<head>(G)$ where G is one or more characters other than
\* star and hash: the group is greedy and a newline is in its class,
\* so it matches exactly when it can take the whole rest of the text
MatchInput(head, s) ==
    /\ StartsWith(s, head)
    /\ Rest(head, s) # <<>>
    /\ \A i \in 1..Len(Rest(head, s)) : Rest(head, s)[i] \notin {"*", "#"}

Sentinel == <<"9", "8">>
PATTERN_INITIAL(s) == MatchLiteral(Sentinel, s)
PATTERN_PAY_MENU(s) == MatchLiteral(Sentinel \o <<"*", "1">>, s)
PayHead == Sentinel \o <<"*", "1", "*">>
PATTERN_PAY_INPUT(s) == MatchInput(PayHead, s)
PATTERN_AMOUNT_MENU(s) == MatchLiteral(Sentinel \o <<"*", "2">>, s)
AmountHead == Sentinel \o <<"*", "2", "*">>
PATTERN_AMOUNT_INPUT(s) == MatchInput(AmountHead, s)
PATTERN_TIME_MENU(s) == MatchLiteral(Sentinel \o <<"*", "3">>, s)
TimeHead == Sentinel \o <<"*", "3", "*">>
PATTERN_TIME_INPUT(s) == MatchInput(TimeHead, s)
PATTERN_TERMS(s) == MatchLiteral(Sentinel \o <<"*", "4">>, s)
PATTERN_RNG_MENU(s) == MatchLiteral(Sentinel \o <<"*", "9">>, s)
PATTERN_RNG_AMOUNT_MENU(s) == MatchLiteral(Sentinel \o <<"*", "9", "*", "2">>, s)
RngAmountHead == Sentinel \o <<"*", "9", "*", "2", "*">>
PATTERN_RNG_AMOUNT_INPUT(s) == MatchInput(RngAmountHead, s)

(***************************************************************************)
(* ussd(): reading and normalising the input, and the if/elif chain that   *)
(* picks the branch.  The branches are named after the intents they serve. *)
(***************************************************************************)
\* the text as read: a query parameter is stripped on reading, a body field is not
ReadText(via, raw) == IF via = "query" THEN Strip(raw) ELSE raw

\* text.replace(" ", "").rstrip("#").strip()
Normalize(t) == Strip(RStripHash(ReplaceSpace(t)))

\* group(1).upper().replace(" ", "")
Carno(head, s) == ReplaceSpace(Upper(Rest(head, s)))

NoPlate == <<>>

\* the branch of the if/elif chain taken for a normalized text, with its plate
Resolve(s) ==
    IF PATTERN_INITIAL(s) THEN [intent |-> "ShowWelcomeMenu", plate |-> NoPlate]
    ELSE IF PATTERN_PAY_MENU(s) THEN [intent |-> "ShowPayPrompt", plate |-> NoPlate]
    ELSE IF PATTERN_PAY_INPUT(s)
        THEN [intent |-> "InitiatePayment", plate |-> Carno(PayHead, s)]
    ELSE IF PATTERN_AMOUNT_MENU(s) THEN [intent |-> "ShowAmountPrompt", plate |-> NoPlate]
    ELSE IF PATTERN_AMOUNT_INPUT(s)
        THEN [intent |-> "ComputeAmount", plate |-> Carno(AmountHead, s)]
    ELSE IF PATTERN_TIME_MENU(s) THEN [intent |-> "ShowDurationPrompt", plate |-> NoPlate]
    ELSE IF PATTERN_TIME_INPUT(s)
        THEN [intent |-> "ComputeDuration", plate |-> Carno(TimeHead, s)]
    ELSE IF PATTERN_TERMS(s) THEN [intent |-> "ShowTerms", plate |-> NoPlate]
    ELSE [intent |-> "Invalid", plate |-> NoPlate]

\* the patterns the chain tests that match a text
MatchingBranches(s) ==
    {b \in {"ShowWelcomeMenu", "ShowPayPrompt", "InitiatePayment", "ShowAmountPrompt",
            "ComputeAmount", "ShowDurationPrompt", "ComputeDuration", "ShowTerms"} :
        CASE b = "ShowWelcomeMenu" -> PATTERN_INITIAL(s)
          [] b = "ShowPayPrompt" -> PATTERN_PAY_MENU(s)
          [] b = "InitiatePayment" -> PATTERN_PAY_INPUT(s)
          [] b = "ShowAmountPrompt" -> PATTERN_AMOUNT_MENU(s)
          [] b = "ComputeAmount" -> PATTERN_AMOUNT_INPUT(s)
          [] b = "ShowDurationPrompt" -> PATTERN_TIME_MENU(s)
          [] b = "ComputeDuration" -> PATTERN_TIME_INPUT(s)
          [] OTHER -> PATTERN_TERMS(s)}

(***************************************************************************)
(* The fee engine (compute_parking_fee) and the formatter (convert).       *)
(***************************************************************************)
\* datetime.time(): the time of day of a timestamp
TimeOf(dt) == dt % SecondsPerDay

\* DurationMinutes without the test for exit_dt < entry_dt
DurationMinutes_Signed(entry_dt, exit_dt) == (exit_dt - entry_dt) \div 60

\* int(timedelta.total_seconds() // 60) of the earlier timestamp subtracted
\* from the later one
DurationMinutes(entry_dt, exit_dt) ==
    IF exit_dt < entry_dt THEN (entry_dt - exit_dt) \div 60
    ELSE (exit_dt - entry_dt) \div 60

IsDayEntry(entry_dt) == DAY_START <= TimeOf(entry_dt) /\ TimeOf(entry_dt) < DAY_END

\* CeilHours rounding down, as extra_minutes // 60 would
CeilHours_Floor(extra_minutes) == extra_minutes \div 60

\* math.ceil(extra_minutes / 60.0)
CeilHours(extra_minutes) ==
    IF extra_minutes % 60 = 0 THEN extra_minutes \div 60
    ELSE extra_minutes \div 60 + 1

\* DayFee without the free period
DayFee_NoFreePeriod(duration_minutes) ==
    IF duration_minutes <= 120 THEN FIRST_HOUR_COST
    ELSE FIRST_HOUR_COST + CeilHours(duration_minutes - 120) * ADDITIONAL_HOUR_COST

DayFee(duration_minutes) ==
    IF duration_minutes <= 30 THEN 0
    ELSE IF duration_minutes <= 120 THEN FIRST_HOUR_COST
    ELSE FIRST_HOUR_COST + CeilHours(duration_minutes - 120) * ADDITIONAL_HOUR_COST

NightFee(duration_minutes) ==
    IF duration_minutes <= 60 THEN FIRST_HOUR_COST
    ELSE FIRST_HOUR_COST + CeilHours(duration_minutes - 60) * ADDITIONAL_HOUR_COST

\* compute_parking_fee choosing the tariff by the time of day of the exit
compute_parking_fee_ByExit(entry_dt, exit_dt) ==
    IF IsDayEntry(exit_dt) THEN DayFee(DurationMinutes(entry_dt, exit_dt))
    ELSE NightFee(DurationMinutes(entry_dt, exit_dt))

compute_parking_fee(entry_dt, exit_dt) ==
    IF IsDayEntry(entry_dt) THEN DayFee(DurationMinutes(entry_dt, exit_dt))
    ELSE NightFee(DurationMinutes(entry_dt, exit_dt))

\* Unit with the plural for every count
Unit_AlwaysPlural(n, unit) == ToString(n) \o " " \o unit \o "s"

\* f"{n} <unit>{'s' if n != 1 else ''}"
Unit(n, unit) == ToString(n) \o " " \o unit \o (IF n # 1 THEN "s" ELSE "")

convert(minutes) ==
    LET hours == minutes \div 60
        mins == minutes % 60
    IN  IF hours = 0 THEN Unit(mins, "minute")
        ELSE IF mins = 0 THEN Unit(hours, "hour")
        ELSE Unit(hours, "hour") \o " " \o Unit(mins, "minute")

(***************************************************************************)
(* The two stores and the collaborators' outcomes.                         *)
(***************************************************************************)
KA == <<"K", "A">>
KB == <<"K", "B">>
Plates == {KA, KB}

\* mobile_number of a row nobody linked a phone to
NULL == <<"NULL">>

\* entry times the gate records: 12:00:00 (day) and 23:00:00 (night) of day 1
EntryTimes == {129600, 169200}
\* datetime.now() of a request: 12:15:00 of day 1 and 00:01:00 of day 2
NowTimes == {130500, 172860}

\* a database call (connect, execute, commit) works or raises
DbOutcomes == {"ok", "error"}
\* the push API answers code 200, answers another code, cannot be reached (or
\* answers a body that is not JSON), or answers a JSON body that is not an object
PushOutcomes == {"accepted", "declined", "transport", "notdict"}
\* what dbo.[Transactions.CheckParkingFeeDue] returns (0 also stands for NULL)
RngAmounts == {0, 150}

RECURSIVE Str(_)
\* the text of a character sequence
Str(s) == IF s = <<>> THEN "" ELSE Head(s) \o Str(Tail(s))

RECURSIVE LStripPlus(_)
\* str.lstrip("+")
LStripPlus(s) ==
    IF s = <<>> THEN <<>>
    ELSE IF Head(s) = "+" THEN LStripPlus(Tail(s))
    ELSE s

\* rows of Operator A's table for a plate, and those with the greatest time_in:
\* the rows SELECT TOP 1 ... ORDER BY time_in DESC may return
RowsOf(carno) == {i \in 1..Len(storeA) : storeA[i].vehicle_number = carno}
LatestOf(carno) ==
    {i \in RowsOf(carno) : \A j \in RowsOf(carno) : storeA[j].time_in <= storeA[i].time_in}

\* is_rng_vehicle: an existence check in Operator B's table; False when it raises
is_rng_vehicle(carno, outcome) == IF outcome = "ok" THEN carno \in storeB ELSE FALSE

\* trigger_mpesa_push: the code of the dict it returns
PushCode(outcome) ==
    CASE outcome = "accepted" -> 200
      [] outcome = "declined" -> 400
      [] OTHER -> 500

\* trigger_mpesa_push returns res.json() as it is: result.get raises when the
\* value is not a dict
GetCodeRaises(outcome) == outcome = "notdict"

\* the request trigger_mpesa_push posts
PushPayload(carno, phone) == [carno |-> ReplaceSpace(carno), phone |-> phone]

(***************************************************************************)
(* Requests, replies and the per-request record of what a handler did.     *)
(***************************************************************************)
Idle == [chan |-> "none", pc |-> "idle"]
NoCall == [fn |-> "none"]
NoReply == [chan |-> "none", status |-> 0, body |-> ""]
EmptyLog ==
    [pushes |-> {}, checks |-> {}, updates |-> {}, lookups |-> {}, steps |-> {}, reads |-> {}]

\* the log with one more call of a collaborator and whether it returned; the
\* steps are those of the request, for the webhook those of the current message
Step(l, name, ok) == [l EXCEPT !.steps = @ \cup {[step |-> name, ok |-> ok]}]
\* a push: whether the API answered a JSON object, and whether with code 200
PushStep(l, outcome) ==
    Step(Step(l, "push_answer", outcome \in {"accepted", "declined"}),
         "push", outcome = "accepted")
Did(name) == \E s \in log.steps : s.step = name
Failed(name) == [step |-> name, ok |-> FALSE] \in log.steps

\* the handler of request r returned: its response
RespondFor(r, chan, body) ==
    /\ reply' = [chan |-> chan, status |-> 200, body |-> body]
    /\ req' = [chan |-> "done", pc |-> "done", was |-> r]

\* an exception left the handler of request r: the framework answers 500
EscapeFor(r, chan) ==
    /\ reply' = [chan |-> chan, status |-> 500, body |-> "Internal Server Error"]
    /\ req' = [chan |-> "done", pc |-> "done", was |-> r]

Respond(chan, body) == RespondFor(req, chan, body)
Escape(chan) == EscapeFor(req, chan)

Goto(pc) ==
    /\ req' = [req EXCEPT !.pc = pc]
    /\ UNCHANGED reply

\* the response is sent and the request's locals are discarded
Sent ==
    /\ req.chan = "done"
    /\ req' = Idle
    /\ reply' = NoReply
    /\ log' = EmptyLog
    /\ UNCHANGED <<storeA, storeB, call>>

(***************************************************************************)
(* The upstream gate system inserts a row when a vehicle enters.           *)
(***************************************************************************)
EnterVehicle(plate, t) ==
    /\ Len(storeA) < MaxTx
    /\ storeA' = Append(storeA, [id |-> Len(storeA) + 1, vehicle_number |-> plate,
                                 time_in |-> t, mobile_number |-> NULL])
    /\ UNCHANGED <<storeB, req, reply, log, call>>

(***************************************************************************)
(* ussd()                                                                  *)
(***************************************************************************)
WelcomeText ==
    "CON Welcome to SyfePark USSD!\nBy paying with USSD you agree with below terms\n"
    \o "1. Pay for Parking\n2. Check Amount Due\n3. Check Time Stayed\n4. Terms & Conditions\n"
    \o "Note: Vehicles managed by RNG (external) only support Amount checks via option 2."
PlatePrompt == "CON Enter your Plate Number"
TermsText == "END Ridgeways Mall Terms & Conditions...\n(Your data is safe, etc.)"
InvalidCode == "END Invalid code entered"
ErrorReply == "END An error occurred. Please try again."
NotFound == "END Vehicle not found!"
RefusePay == "END This vehicle is managed by RNG. Payments must be made via RNG services."
RefuseTime ==
    "END Time checks are not available for RNG-managed vehicles. Please contact RNG."
PushSent ==
    "END Thank You for using Ridgeway's parking. You will receive an M-Pesa prompt shortly."

Max0(n) == IF n > 0 THEN n ELSE 0

\* int((now_dt - transaction[1]).total_seconds() // 60)
Elapsed(now_dt, time_in) == (now_dt - time_in) \div 60

FreeLeft(now_dt, time_in) ==
    "END You are within free " \o ToString(FREE_PARKING_MINUTES) \o " mins. "
    \o ToString(Max0(FREE_PARKING_MINUTES - Elapsed(now_dt, time_in)))
    \o " mins left to exit free."

RngAmountReply(carno, amount) ==
    IF amount # 0 THEN "END Your amount due for " \o Str(carno) \o " is KES " \o ToString(amount)
    ELSE "END No charge for " \o Str(carno) \o ". Within free time."

\* AmountReply without the wording for a cost of 0
AmountReply_AlwaysDue(cost) == "END Amount due: KES " \o ToString(cost)

AmountReply(cost) ==
    IF cost # 0 THEN "END Amount due: KES " \o ToString(cost)
    ELSE "END No charge. Within free time."

StayedReply(duration) == "END Stayed for: " \o convert(duration)

StoreIntents == {"InitiatePayment", "ComputeAmount", "ComputeDuration"}

\* MenuResponse with the terms left open for further input
MenuResponse_TermsContinue(intent) ==
    CASE intent = "ShowWelcomeMenu" -> WelcomeText
      [] intent \in {"ShowPayPrompt", "ShowAmountPrompt", "ShowDurationPrompt"} -> PlatePrompt
      [] intent = "ShowTerms" -> "CON Ridgeways Mall Terms & Conditions...\n(Your data is safe, etc.)"
      [] OTHER -> InvalidCode

\* the response of a branch that consults no store
MenuResponse(intent) ==
    CASE intent = "ShowWelcomeMenu" -> WelcomeText
      [] intent \in {"ShowPayPrompt", "ShowAmountPrompt", "ShowDurationPrompt"} -> PlatePrompt
      [] intent = "ShowTerms" -> TermsText
      [] OTHER -> InvalidCode

\* a request whose branch consults no store: the handler runs to its response
UssdMenu(via, raw) ==
    LET text == Normalize(ReadText(via, raw))
        r == Resolve(text)
    IN  /\ req.chan = "none"
        /\ r.intent \notin StoreIntents
        /\ RespondFor([chan |-> "ussd", text |-> text, intent |-> r.intent,
                       carno |-> r.plate], "ussd", MenuResponse(r.intent))
        /\ UNCHANGED <<storeA, storeB, log, call>>

\* a request for a plate: input read and normalised, phone and now_dt taken,
\* the branch entered and the plate captured; known records whether the plate
\* had a row in Operator A's table when the request came
UssdBegin(via, raw, msisdn, now) ==
    LET text == Normalize(ReadText(via, raw))
        r == Resolve(text)
    IN  /\ req.chan = "none"
        /\ r.intent \in StoreIntents
        /\ req' = [chan |-> "ussd", pc |-> "is_rng", text |-> text, intent |-> r.intent,
                   carno |-> r.plate, phone |-> LStripPlus(msisdn), now_dt |-> now,
                   known |-> RowsOf(r.plate) # {}]
        /\ UNCHANGED <<storeA, storeB, reply, log, call>>

\* if is_rng_vehicle(carno)
UssdIsRng ==
    /\ req.chan = "ussd" /\ req.pc = "is_rng"
    /\ \E outcome \in DbOutcomes :
        LET rng == is_rng_vehicle(req.carno, outcome)
        IN  /\ log' = [Step(log, "is_rng", outcome = "ok") EXCEPT !.checks =
                          @ \cup {[plate |-> req.carno, outcome |-> outcome, rng |-> rng]}]
            /\ IF req.intent = "InitiatePayment"
                   THEN IF rng THEN Respond("ussd", RefusePay) ELSE Goto("link")
               ELSE IF req.intent = "ComputeAmount"
                   THEN IF rng THEN Goto("rng_fee") ELSE Goto("link")
               ELSE IF rng THEN Respond("ussd", RefuseTime) ELSE Goto("get_tx")
    /\ UNCHANGED <<storeA, storeB, call>>

\* link_phone_to_vehicle(carno, phone): SELECT TOP 1 id, then UPDATE, in one
\* database transaction; an exception is logged and swallowed
UssdLink ==
    /\ req.chan = "ussd" /\ req.pc = "link"
    /\ \E outcome \in DbOutcomes :
        IF outcome = "ok" /\ LatestOf(req.carno) # {}
            THEN \E i \in LatestOf(req.carno) :
                    /\ storeA' = [storeA EXCEPT ![i].mobile_number = req.phone]
                    /\ log' = [Step(log, "link", TRUE) EXCEPT !.updates = @ \cup {i}]
            ELSE /\ log' = Step(log, "link", outcome = "ok")
                 /\ UNCHANGED storeA
    /\ Goto(IF req.intent = "InitiatePayment" THEN "push" ELSE "get_tx")
    /\ UNCHANGED <<storeB, call>>

\* result = trigger_mpesa_push(carno, phone); if result.get("code") == 200.
\* A result that is not a dict makes result.get raise, inside the handler's try.
UssdPush ==
    /\ req.chan = "ussd" /\ req.pc = "push"
    /\ \E outcome \in PushOutcomes :
        /\ log' = [PushStep(log, outcome)
                      EXCEPT !.pushes = @ \cup {PushPayload(req.carno, req.phone)}]
        /\ IF GetCodeRaises(outcome) THEN Respond("ussd", ErrorReply)
           ELSE IF PushCode(outcome) = 200 THEN Respond("ussd", PushSent)
           ELSE Goto("get_tx")
    /\ UNCHANGED <<storeA, storeB, call>>

\* the response built from get_vehicle_transaction's result (None: no row)
UssdTxResponse(found, time_in) ==
    IF req.intent = "InitiatePayment"
        THEN IF found THEN FreeLeft(req.now_dt, time_in) ELSE NotFound
    ELSE IF req.intent = "ComputeAmount"
        THEN IF found THEN AmountReply(compute_parking_fee(time_in, req.now_dt)) ELSE NotFound
    ELSE IF found THEN StayedReply(Elapsed(req.now_dt, time_in)) ELSE NotFound

\* transaction = get_vehicle_transaction(carno): None when there is no row
\* and when the query raises; reads records the row it returned
UssdGetTx ==
    /\ req.chan = "ussd" /\ req.pc = "get_tx"
    /\ \E outcome \in DbOutcomes :
        IF outcome = "ok" /\ LatestOf(req.carno) # {}
            THEN \E i \in LatestOf(req.carno) :
                    /\ log' = [Step(log, "get_tx", TRUE) EXCEPT !.reads = @ \cup {i}]
                    /\ Respond("ussd", UssdTxResponse(TRUE, storeA[i].time_in))
        ELSE /\ log' = Step(log, "get_tx", outcome = "ok")
             /\ Respond("ussd", UssdTxResponse(FALSE, 0))
    /\ UNCHANGED <<storeA, storeB, call>>

\* amount = rng_check_parking_fee_due(carno): it raises when the query does,
\* and the handler then answers the error reply
UssdRngFee ==
    /\ req.chan = "ussd" /\ req.pc = "rng_fee"
    /\ \E outcome \in DbOutcomes :
        IF outcome = "ok"
            THEN \E amount \in RngAmounts :
                    /\ log' = [Step(log, "rng_fee", TRUE) EXCEPT !.lookups =
                                  @ \cup {[plate |-> Upper(Strip(req.carno)),
                                           amount |-> amount]}]
                    /\ Respond("ussd", RngAmountReply(req.carno, amount))
            ELSE /\ log' = Step(log, "rng_fee", FALSE)
                 /\ Respond("ussd", ErrorReply)
    /\ UNCHANGED <<storeA, storeB, call>>

(***************************************************************************)
(* receivetext(): the WhatsApp webhook                                     *)
(***************************************************************************)
\* where the first word of a text without leading whitespace ends
WordEnd(t) ==
    CHOOSE i \in 1..(Len(t) + 1) :
        /\ i = Len(t) + 1 \/ t[i] \in Whitespace
        /\ \A j \in 1..(i - 1) : t[j] \notin Whitespace

RECURSIVE Split(_)
\* str.split(): the words between runs of whitespace
Split(s) ==
    LET t == LStrip(s)
    IN  IF t = <<>> THEN <<>>
        ELSE <<SubSeq(t, 1, WordEnd(t) - 1)>> \o Split(SubSeq(t, WordEnd(t), Len(t)))

RECURSIVE JoinSpace(_)
\* " ".join(words)
JoinSpace(words) ==
    IF words = <<>> THEN <<>>
    ELSE IF Len(words) = 1 THEN Head(words)
    ELSE Head(words) \o <<" ">> \o JoinSpace(Tail(words))

\* parts = body.lower().split()
Parts(text) == Split(Lower(Strip(text)))

\* " ".join(parts[1:]).upper().replace(" ", "")
CarnoRaw(parts) == ReplaceSpace(Upper(JoinSpace(Tail(parts))))

WordPay == <<"p", "a", "y">>
WordTime == <<"t", "i", "m", "e">>
WordAmount == <<"a", "m", "o", "u", "n", "t">>
Commands == {WordTime, WordAmount, WordPay}

\* pay_phone: the sender, or the third word of a pay message
PayPhone(parts, phone) ==
    IF parts[1] = WordPay /\ Len(parts) >= 3 THEN parts[3] ELSE phone

\* whether the loop body goes on to the store for a message
IsCommand(text) == Len(Parts(text)) >= 2 /\ Parts(text)[1] \in Commands

Ack == "{\"status\": \"received\"}"

\* the webhook is called: data read, the loop over its messages starts
WaBegin ==
    /\ req.chan = "none"
    /\ req' = [chan |-> "wa", pc |-> "loop", n |-> 0]
    /\ UNCHANGED <<storeA, storeB, reply, log, call>>

\* a message the loop passes over: fewer than two words, or no known command
WaSkip(from, text) ==
    /\ req.chan = "wa" /\ req.pc = "loop" /\ req.n < MaxMsgs
    /\ ~IsCommand(text)
    /\ req' = [req EXCEPT !.n = @ + 1]
    /\ UNCHANGED <<storeA, storeB, reply, log, call>>

\* a time, amount or pay message: its words taken apart
WaCommand(from, text) ==
    /\ req.chan = "wa" /\ req.pc = "loop" /\ req.n < MaxMsgs
    /\ IsCommand(text)
    /\ req' = [chan |-> "wa", pc |-> "select", n |-> req.n, phone |-> from,
               parts |-> Parts(text),
               cmd |-> Parts(text)[1], carno_raw |-> CarnoRaw(Parts(text)),
               pay_phone |-> PayPhone(Parts(text), from), carid |-> 0]
    /\ UNCHANGED <<storeA, storeB, reply, log, call>>

\* the loop is over: return JSONResponse({"status": "received"})
WaEnd ==
    /\ req.chan = "wa" /\ req.pc = "loop"
    /\ Respond("wa", Ack)
    /\ UNCHANGED <<storeA, storeB, log, call>>

WaNextMessage == req' = [chan |-> "wa", pc |-> "loop", n |-> req.n + 1] /\ UNCHANGED reply

\* with get_cursor(): SELECT TOP 1 id, time_in; if row: UPDATE ... WHERE id = carid.
\* The update is part of the open database transaction until the block ends.
\* Nothing catches an exception of the connection, the SELECT or the UPDATE.
WaSelect ==
    /\ req.chan = "wa" /\ req.pc = "select"
    /\ \E outcome \in DbOutcomes :
        IF outcome = "error"
            THEN Escape("wa") /\ log' = Step(log, "select", FALSE)
        ELSE IF LatestOf(req.carno_raw) = {}
            THEN Goto("commit") /\ log' = Step(log, "select", TRUE)
        ELSE \E i \in LatestOf(req.carno_raw), update \in DbOutcomes :
                IF update = "error"
                    THEN /\ Escape("wa")
                         /\ log' = Step(Step(log, "select", TRUE), "link", FALSE)
                ELSE /\ req' = [req EXCEPT !.carid = i,
                                           !.pc = IF req.cmd = WordPay THEN "push"
                                                  ELSE "commit"]
                     /\ log' = Step(Step(log, "select", TRUE), "link", TRUE)
                     /\ UNCHANGED reply
    /\ UNCHANGED <<storeA, storeB, call>>

\* result = trigger_mpesa_push(carno_raw, pay_phone); if result.get("code") == 200.
\* A result that is not a dict makes result.get raise, and nothing catches it.
WaPush ==
    /\ req.chan = "wa" /\ req.pc = "push"
    /\ \E outcome \in PushOutcomes :
        /\ log' = [PushStep(log, outcome)
                      EXCEPT !.pushes = @ \cup {PushPayload(req.carno_raw, req.pay_phone)}]
        /\ IF GetCodeRaises(outcome) THEN Escape("wa")
           ELSE Goto(IF PushCode(outcome) = 200 THEN "template" ELSE "commit")
    /\ UNCHANGED <<storeA, storeB, call>>

\* the Infobip template send (conn.request, conn.getresponse): an exception
\* leaves the with block, which rolls the update back, and the handler
WaTemplate ==
    /\ req.chan = "wa" /\ req.pc = "template"
    /\ \E outcome \in {"ok", "error"} :
        /\ log' = Step(log, "template", outcome = "ok")
        /\ IF outcome = "ok" THEN Goto("commit") ELSE Escape("wa")
    /\ UNCHANGED <<storeA, storeB, call>>

\* the with block ends: conn.commit() makes the update of mobile_number, if one
\* was made (carid is 0 when no row was found), durable; the loop goes on to the
\* next message, whose steps are recorded afresh
WaCommit ==
    /\ req.chan = "wa" /\ req.pc = "commit"
    /\ \E outcome \in DbOutcomes :
        IF outcome = "error"
            THEN /\ Escape("wa")
                 /\ log' = Step(log, "commit", FALSE)
                 /\ UNCHANGED storeA
        ELSE IF req.carid = 0
            THEN /\ WaNextMessage
                 /\ log' = [log EXCEPT !.steps = {}]
                 /\ UNCHANGED storeA
        ELSE /\ storeA' = [storeA EXCEPT ![req.carid].mobile_number = req.pay_phone]
             /\ log' = [log EXCEPT !.updates = @ \cup {req.carid}, !.steps = {}]
             /\ WaNextMessage
    /\ UNCHANGED <<storeB, call>>

(***************************************************************************)
(* twilio_ivr()                                                            *)
(***************************************************************************)
LinkedRows(phone, plate) ==
    {i \in 1..Len(storeA) :
        storeA[i].mobile_number = phone /\ storeA[i].vehicle_number = plate}
LinkedPlates(phone) ==
    {storeA[i].vehicle_number : i \in {j \in 1..Len(storeA) : storeA[j].mobile_number = phone}}

\* MIN(id) of a plate's rows linked to the phone
MinId(phone, plate) ==
    CHOOSE i \in LinkedRows(phone, plate) : \A j \in LinkedRows(phone, plate) : i <= j

RECURSIVE OrderByMinIdDesc(_, _)
OrderByMinIdDesc(phone, plates) ==
    IF plates = {} THEN <<>>
    ELSE LET top == CHOOSE p \in plates :
                        \A q \in plates : MinId(phone, q) <= MinId(phone, p)
         IN  <<top>> \o OrderByMinIdDesc(phone, plates \ {top})

\* get_vehicles(): GROUP BY vehicle_number ORDER BY MIN(id) DESC
get_vehicles(from_number) == OrderByMinIdDesc(from_number, LinkedPlates(from_number))

DigitChars == {"0", "1", "2", "3", "4", "5", "6", "7", "8", "9"}
DigitValue(c) ==
    CASE c = "0" -> 0 [] c = "1" -> 1 [] c = "2" -> 2 [] c = "3" -> 3 [] c = "4" -> 4
      [] c = "5" -> 5 [] c = "6" -> 6 [] c = "7" -> 7 [] c = "8" -> 8 [] OTHER -> 9

\* whether int(digits) returns, and what
IsInt(digits) == digits # <<>> /\ \A i \in 1..Len(digits) : digits[i] \in DigitChars
RECURSIVE IntOf(_)
IntOf(digits) ==
    IF digits = <<>> THEN 0
    ELSE 10 * IntOf(SubSeq(digits, 1, Len(digits) - 1)) + DigitValue(digits[Len(digits)])

\* vehicles[:9]
First9(vehicles) == SubSeq(vehicles, 1, IF Len(vehicles) < 9 THEN Len(vehicles) ELSE 9)

SayForCar(car, i) == "For " \o Str(car) \o ", press " \o ToString(i) \o "."

\* the gather menu of the first turn
GatherScript(vehicles) ==
    <<"<Gather>", "Welcome to Ridgeways Parking Payment. Select your vehicle.">>
    \o [i \in 1..Len(First9(vehicles)) |-> SayForCar(First9(vehicles)[i], i)]
    \o <<"</Gather>">>

NoVehicles == <<"No vehicles linked to your number. Use USSD to pay. Goodbye.", "<Hangup/>">>
InvalidSelection == <<"Invalid selection.", "<Hangup/>">>
InvalidInput == <<"Invalid input.", "<Hangup/>">>
WithinFree == <<"You are within free parking time. No payment needed.", "<Hangup/>">>
PaymentSent(carno) ==
    <<"Payment request sent for " \o Str(carno)
      \o ". Check your phone for M-Pesa prompt. Thank you!", "<Hangup/>">>

IvrCall(from, digits) ==
    [chan |-> "ivr", from_number |-> LStripPlus(from), digits |-> digits]

\* a request without Digits: the caller's vehicles are enumerated
FirstTurn(from) ==
    /\ req.chan = "none"
    /\ \E outcome \in DbOutcomes :
        /\ log' = Step(log, "get_vehicles", outcome = "ok")
        /\ IF outcome = "error" THEN EscapeFor(IvrCall(from, <<>>), "ivr")
           ELSE IF get_vehicles(LStripPlus(from)) = <<>>
               THEN RespondFor(IvrCall(from, <<>>), "ivr", NoVehicles)
           ELSE RespondFor(IvrCall(from, <<>>), "ivr",
                           GatherScript(get_vehicles(LStripPlus(from))))
    /\ UNCHANGED <<storeA, storeB>>

\* a request with Digits: the enumeration is made again and indexed by the
\* digit; the bare except takes int(digits) failing and result.get failing
SecondTurn(from, digits) ==
    LET from_number == LStripPlus(from)
        vehicles == get_vehicles(from_number)
    IN  /\ req.chan = "none"
        /\ digits # <<>>
        /\ \E outcome \in DbOutcomes :
            IF outcome = "error"
                THEN /\ EscapeFor(IvrCall(from, digits), "ivr")
                     /\ log' = Step(log, "get_vehicles", FALSE)
            ELSE IF ~IsInt(digits)
                THEN /\ RespondFor(IvrCall(from, digits), "ivr", InvalidInput)
                     /\ log' = Step(log, "get_vehicles", TRUE)
            ELSE IF ~(1 <= IntOf(digits) /\ IntOf(digits) <= Len(vehicles))
                THEN /\ RespondFor(IvrCall(from, digits), "ivr", InvalidSelection)
                     /\ log' = Step(log, "get_vehicles", TRUE)
            ELSE \E push \in PushOutcomes :
                    LET carno == ReplaceSpace(vehicles[IntOf(digits)])
                    IN  /\ log' = [PushStep(Step(log, "get_vehicles", TRUE), push)
                                      EXCEPT !.pushes = @ \cup {PushPayload(carno, from_number)}]
                        /\ IF GetCodeRaises(push)
                               THEN RespondFor(IvrCall(from, digits), "ivr", InvalidInput)
                           ELSE IF PushCode(push) = 200
                               THEN RespondFor(IvrCall(from, digits), "ivr",
                                               PaymentSent(carno))
                           ELSE RespondFor(IvrCall(from, digits), "ivr", WithinFree)
        /\ UNCHANGED <<storeA, storeB>>

\* the two kinds of request, from any client
IvrFirstTurn(from) == FirstTurn(from) /\ UNCHANGED call
IvrSecondTurn(from, digits) == SecondTurn(from, digits) /\ UNCHANGED call

(***************************************************************************)
(* A phone call through Twilio: the first request when the caller dials    *)
(* in, the second when they press a key of the menu they heard.  Twilio    *)
(* makes the second request only after a Gather, with one key.             *)
(***************************************************************************)
\* the plates a script announces, in the order of their numbers
Announced(script) ==
    IF Head(script) = "<Gather>"
        THEN [i \in 1..(Len(script) - 3) |->
                CHOOSE p \in Plates : script[i + 2] = SayForCar(p, i)]
    ELSE <<>>

Dial(from) ==
    /\ call = NoCall
    /\ FirstTurn(from)
    /\ call' = [fn |-> "twilio", from |-> from,
                heard |-> IF reply'.status = 200 THEN Announced(reply'.body) ELSE <<>>,
                pressed |-> <<>>]

Press(digits) ==
    /\ call.fn = "twilio" /\ call.heard # <<>> /\ call.pressed = <<>>
    /\ SecondTurn(call.from, digits)
    /\ call' = [call EXCEPT !.pressed = digits]

HangUp ==
    /\ call.fn = "twilio"
    /\ req.chan = "none"
    /\ call' = NoCall
    /\ UNCHANGED <<storeA, storeB, req, reply, log>>

(***************************************************************************)
(* The service: requests of the three channels, one handled at a time,     *)
(* while vehicles keep entering.                                           *)
(***************************************************************************)
Path(k, arg) == Sentinel \o <<"*", k, "*">> \o arg

\* USSD inputs the gateway delivers
UssdTexts ==
    {Sentinel, Sentinel \o <<"*", "1">>, Sentinel \o <<"*", "2">>, Sentinel \o <<"*", "3">>,
     Sentinel \o <<"*", "4">>, Sentinel \o <<"*", "5">>,
     Path("1", <<"k", "a">>), Path("1", <<"K", " ", "B", "#">>),
     Path("2", KA), Path("2", KB), Path("3", KA), Path("3", KB),
     RngAmountHead \o KB}
Vias == {"query", "body"}
\* MSISDN of a USSD request, From of an IVR call
CallerPhones == {<<"+", "7">>, <<"8">>}
\* "from" of a WhatsApp message
WaPhones == {<<"7">>}
WaTexts ==
    {WordPay \o <<" ">> \o <<"k", "a">>,
     <<"P", "a", "y">> \o <<" ">> \o KB,
     WordPay \o <<" ">> \o KA \o <<" ">> \o <<"8">>,
     WordTime \o <<" ">> \o KA,
     WordAmount \o <<" ", " ">> \o KB,
     WordPay,
     <<"h", "i">> \o <<" ">> \o KA}
IvrDigits == {<<"1">>, <<"2">>, <<"3">>, <<"#">>}

Init ==
    /\ storeA = <<>>
    /\ storeB = {KB}
    /\ req = Idle
    /\ reply = NoReply
    /\ log = EmptyLog
    /\ call = NoCall

Next ==
    \/ \E plate \in Plates, t \in EntryTimes : EnterVehicle(plate, t)
    \/ \E via \in Vias, raw \in UssdTexts : UssdMenu(via, raw)
    \/ \E via \in Vias, raw \in UssdTexts, msisdn \in CallerPhones, now \in NowTimes :
          UssdBegin(via, raw, msisdn, now)
    \/ UssdIsRng
    \/ UssdLink
    \/ UssdPush
    \/ UssdGetTx
    \/ UssdRngFee
    \/ WaBegin
    \/ \E from \in WaPhones, text \in WaTexts : WaSkip(from, text)
    \/ \E from \in WaPhones, text \in WaTexts : WaCommand(from, text)
    \/ WaEnd
    \/ WaSelect
    \/ WaPush
    \/ WaTemplate
    \/ WaCommit
    \/ \E from \in CallerPhones : IvrFirstTurn(from)
    \/ \E from \in CallerPhones, digits \in IvrDigits : IvrSecondTurn(from, digits)
    \/ Sent

Spec == Init /\ [][Next]_vars

\* phone calls to the IVR while vehicles enter and the requests that link
\* phones to vehicles are served
NextIvr ==
    \/ \E plate \in Plates, t \in EntryTimes : EnterVehicle(plate, t)
    \/ \E via \in Vias, raw \in UssdTexts, msisdn \in CallerPhones, now \in NowTimes :
          UssdBegin(via, raw, msisdn, now)
    \/ UssdIsRng
    \/ UssdLink
    \/ UssdPush
    \/ UssdGetTx
    \/ UssdRngFee
    \/ WaBegin
    \/ \E from \in WaPhones, text \in WaTexts : WaSkip(from, text)
    \/ \E from \in WaPhones, text \in WaTexts : WaCommand(from, text)
    \/ WaEnd
    \/ WaSelect
    \/ WaPush
    \/ WaTemplate
    \/ WaCommit
    \/ \E from \in CallerPhones : Dial(from)
    \/ \E digits \in IvrDigits : Press(digits)
    \/ HangUp
    \/ Sent

SpecIvr == Init /\ [][NextIvr]_vars

(***************************************************************************)
(* Calls of the pure functions, each on inputs drawn from a bounded set:   *)
(* the router on USSD inputs, the fee engine on pairs of timestamps, the   *)
(* formatter on minute counts.                                             *)
(***************************************************************************)
ServiceIdle ==
    /\ storeA = <<>>
    /\ storeB = {KB}
    /\ req = Idle
    /\ reply = NoReply
    /\ log = EmptyLog

Pending == [done |-> FALSE]

\* characters typed after a path head
TailChars == {"k", "A", " ", "*", "#", "1"}
Tails == UNION {[1..n -> TailChars] : n \in 0..MaxTail}
Star == <<"*">>
RouterHeads ==
    {<<>>, <<"9">>, Sentinel, Sentinel \o Star, <<"8">> \o Star \o <<"1">> \o Star,
     Sentinel \o <<"*", "1">>, PayHead, Sentinel \o <<"*", "2">>, AmountHead,
     Sentinel \o <<"*", "3">>, TimeHead, Sentinel \o <<"*", "4">>, Sentinel \o <<"*", "5">>,
     Sentinel \o <<"*", "9">>, Sentinel \o <<"*", "9", "*", "2">>, RngAmountHead,
     <<" ">> \o PayHead, <<"\t">> \o Sentinel}

RouterInit ==
    /\ ServiceIdle
    /\ call \in {[fn |-> "resolve", via |-> v, raw |-> h \o t, ret |-> Pending] :
                    v \in Vias, h \in RouterHeads, t \in Tails}

\* ussd() up to the choice of its branch, and the response of a branch
\* that consults no store
RouterCall ==
    /\ call.fn = "resolve" /\ ~call.ret.done
    /\ LET text == Normalize(ReadText(call.via, call.raw))
           r == Resolve(text)
       IN  call' = [call EXCEPT !.ret =
                        [done |-> TRUE, text |-> text, intent |-> r.intent, plate |-> r.plate,
                         response |-> IF r.intent \in StoreIntents THEN ""
                                      ELSE MenuResponse(r.intent)]]
    /\ UNCHANGED <<storeA, storeB, req, reply, log>>

SpecRouter == RouterInit /\ [][RouterCall]_vars

\* entry timestamps: day 1 at 00:00:00, 05:59:59, 06:00:00, 06:00:01, 12:00:00,
\* 21:59:59, 22:00:00, 23:00:00 and 23:59:59
FeeEntries ==
    {SecondsPerDay + t : t \in {0, 21599, 21600, 21601, 43200, 79199, 79200, 82800, 86399}}
\* gaps between the timestamps, in seconds: whole minutes and 59 seconds more
FeeGaps == {60 * m + sec : m \in 0..MaxMinutes, sec \in {0, 59}}

FeeInit ==
    /\ ServiceIdle
    /\ call \in {[fn |-> "compute_parking_fee", entry_dt |-> e, exit_dt |-> e + sign * g,
                  ret |-> Pending] :
                    e \in FeeEntries, g \in FeeGaps, sign \in {1, -1}}

FeeCall ==
    /\ call.fn = "compute_parking_fee" /\ ~call.ret.done
    /\ call' = [call EXCEPT !.ret =
                   [done |-> TRUE,
                    duration_minutes |-> DurationMinutes(call.entry_dt, call.exit_dt),
                    cost |-> compute_parking_fee(call.entry_dt, call.exit_dt)]]
    /\ UNCHANGED <<storeA, storeB, req, reply, log>>

SpecFee == FeeInit /\ [][FeeCall]_vars

ConvertInit ==
    /\ ServiceIdle
    /\ call \in {[fn |-> "convert", minutes |-> m, ret |-> Pending] : m \in 0..MaxConvert}

ConvertCall ==
    /\ call.fn = "convert" /\ ~call.ret.done
    /\ call' = [call EXCEPT !.ret = [done |-> TRUE, text |-> convert(call.minutes)]]
    /\ UNCHANGED <<storeA, storeB, req, reply, log>>

SpecConvert == ConvertInit /\ [][ConvertCall]_vars

(***************************************************************************)
(* Properties.                                                             *)
(***************************************************************************)
Finished(chan) == req.chan = "done" /\ req.was.chan = chan
RouterDone == call.fn = "resolve" /\ call.ret.done
FeeDone == call.fn = "compute_parking_fee" /\ call.ret.done
ConvertDone == call.fn = "convert" /\ call.ret.done

\* C1: a USSD request 98*1*<plate> for a plate of Operator B's store is answered
\* with the cross-operator refusal, and in it no push is made and no phone linked.
C1_CrossOperatorRefusal ==
    (Finished("ussd") /\ req.was.intent = "InitiatePayment" /\ req.was.carno \in storeB)
        => (reply.body = RefusePay /\ log.pushes = {} /\ log.updates = {})

\* C2: on every channel a push for a plate is made only after an existence check
\* of that plate in Operator B's store, made in the same request, answered that
\* the plate is not there; no push is made for a plate of Operator B's store.
C2_GuardNeverBypassed ==
    \A p \in log.pushes :
        /\ \E c \in log.checks : c.plate = p.carno /\ ~c.rng
        /\ p.carno \notin storeB

\* C3: a normalized text 98*9*2*<arg>, arg non-empty and without '*' or '#',
\* resolves to ComputeAmount with the plate arg upper-cased, and the reply is not
\* "Invalid code entered".
C3_RngAmountResolves ==
    (RouterDone /\ MatchInput(RngAmountHead, call.ret.text))
        => /\ call.ret.intent = "ComputeAmount"
           /\ call.ret.plate = Upper(Rest(RngAmountHead, call.ret.text))
           /\ call.ret.response # InvalidCode

LowerCaseLetters == {"a", "b", "k", "p", "y", "t", "i", "m", "e", "o", "u", "n"}
PlateArg(t) == SubSeq(t, 6, Len(t))
\* a text 98*k*<arg> with a non-empty arg holding no '*' and no '#'
IsPlatePath(t, k) ==
    /\ Len(t) >= 6
    /\ t[1] = "9" /\ t[2] = "8" /\ t[3] = "*" /\ t[4] = k /\ t[5] = "*"
    /\ \A i \in 6..Len(t) : t[i] \notin {"*", "#"}

TariffCeil(x) == CHOOSE n \in 0..(x + 1) : 60 * n >= x /\ 60 * (n - 1) < x
TariffDay(t) ==
    LET tod == t - 86400 * (t \div 86400)
    IN  6 * 3600 <= tod /\ tod < 22 * 3600
TariffFee(day, d) ==
    IF day
        THEN IF d <= 30 THEN 0
             ELSE IF d <= 120 THEN 50
             ELSE 50 + TariffCeil(d - 120) * 50
        ELSE IF d <= 60 THEN 50
             ELSE 50 + TariffCeil(d - 60) * 50
AbsGap(a, b) == IF a >= b THEN a - b ELSE b - a
TimeOfDay(t) == t - 86400 * (t \div 86400)

\* C5: the fee is the reference tariff of the entry's class at
\* d = floor(|exit - entry| / 60): day 30 -> 0, 31 -> 50, 120 -> 50, 121 -> 100,
\* night 60 -> 50, 61 -> 100, 180 -> 150; it is a non-negative multiple of 50.
C5_FeeMatchesTariff ==
    FeeDone =>
        LET d == AbsGap(call.exit_dt, call.entry_dt) \div 60
            day == TariffDay(call.entry_dt)
            cost == call.ret.cost
        IN  /\ cost = TariffFee(day, d)
            /\ cost >= 0 /\ cost % 50 = 0
            /\ (day /\ d = 30) => cost = 0
            /\ (day /\ d = 31) => cost = 50
            /\ (day /\ d = 120) => cost = 50
            /\ (day /\ d = 121) => cost = 100
            /\ (~day /\ d = 60) => cost = 50
            /\ (~day /\ d = 61) => cost = 100
            /\ (~day /\ d = 180) => cost = 150

\* a day entry left after 121 minutes and 59 seconds
C5_Witness ==
    /\ FeeDone
    /\ TimeOfDay(call.entry_dt) = 43200
    /\ call.exit_dt = call.entry_dt + 121 * 60 + 59
    /\ call.ret.cost = 100

\* C6: the tariff class is that of the entry's time of day, the day window being
\* half open (06:00:00 and 21:59:59 day, 22:00:00 and 05:59:59 night), and stays
\* of the same class and the same minute duration cost the same whatever the
\* exit time of day.
C6_TariffByEntryOnly ==
    FeeDone =>
        LET d == AbsGap(call.exit_dt, call.entry_dt) \div 60
            tod == TimeOfDay(call.entry_dt)
        IN  /\ (tod \in {21600, 79199} /\ d <= 30) => call.ret.cost = 0
            /\ (tod \in {79200, 21599} /\ d <= 30) => call.ret.cost = 50
            /\ \A e \in FeeEntries, sign \in {1, -1}, sec \in {0, 59} :
                    TariffDay(e) = TariffDay(call.entry_dt)
                        => compute_parking_fee(e, e + sign * (60 * d + sec)) = call.ret.cost

\* a stay entered at 21:59:59 that ends at 22:20 and is free
C6_Witness ==
    /\ FeeDone
    /\ TimeOfDay(call.entry_dt) = 79199
    /\ call.exit_dt = call.entry_dt + 20 * 60
    /\ TimeOfDay(call.exit_dt) >= 79200
    /\ call.ret.cost = 0

\* C7: for a day entry the fee does not decrease with the duration, and a stay of
\* no duration is free.
C7_DayFeeMonotone ==
    (FeeDone /\ TariffDay(call.entry_dt) /\ call.exit_dt >= call.entry_dt)
        => /\ \A d1 \in 0..call.ret.duration_minutes :
                compute_parking_fee(call.entry_dt, call.entry_dt + 60 * d1) <= call.ret.cost
           /\ (call.exit_dt = call.entry_dt) => (call.ret.cost = 0)

\* a day entry left after 200 minutes, and one left at once
C7_Witness ==
    /\ FeeDone
    /\ TimeOfDay(call.entry_dt) = 21600
    /\ call.exit_dt = call.entry_dt + 200 * 60
    /\ call.ret.cost = 150

\* C8: an exit g before the entry costs what an exit g after the same entry costs,
\* and the duration used is not negative.
C8_ReversedSameFee ==
    FeeDone =>
        /\ call.ret.duration_minutes >= 0
        /\ (call.exit_dt < call.entry_dt)
                => /\ call.ret.cost =
                        compute_parking_fee(call.entry_dt,
                                            call.entry_dt + (call.entry_dt - call.exit_dt))
                   /\ call.ret.cost =
                        TariffFee(TariffDay(call.entry_dt),
                                  (call.entry_dt - call.exit_dt) \div 60)

\* a night entry whose exit is stamped 61 minutes before it
C8_Witness ==
    /\ FeeDone
    /\ TimeOfDay(call.entry_dt) = 82800
    /\ call.exit_dt = call.entry_dt - 61 * 60
    /\ call.ret.duration_minutes = 61
    /\ call.ret.cost = 100

\* C9: convert(m) for m >= 0, with h = m div 60 and r = m mod 60, is the minutes
\* alone when h = 0, the hours alone when h > 0 and r = 0, and both otherwise, a
\* unit being singular exactly when its count is 1.
C9_Humanize ==
    ConvertDone =>
        LET m == call.minutes
            h == m \div 60
            r == m % 60
            hours == ToString(h) \o (IF h = 1 THEN " hour" ELSE " hours")
            mins == ToString(r) \o (IF r = 1 THEN " minute" ELSE " minutes")
        IN  /\ (h = 0) => (call.ret.text = mins)
            /\ (h > 0 /\ r = 0) => (call.ret.text = hours)
            /\ (h > 0 /\ r > 0) => (call.ret.text = hours \o " " \o mins)
            /\ (m = 0) => (call.ret.text = "0 minutes")
            /\ (m = 1) => (call.ret.text = "1 minute")
            /\ (m = 60) => (call.ret.text = "1 hour")
            /\ (m = 90) => (call.ret.text = "1 hour 30 minutes")

\* 61 minutes, both units singular
C9_Witness ==
    /\ ConvertDone
    /\ call.minutes = 61
    /\ call.ret.text = "1 hour 1 minute"

\* C10: every request ends with a reply in its channel's format: a USSD request
\* with a CON or END text, a WhatsApp webhook call with the acknowledgement, an
\* IVR call with a spoken script; no failure leaves a handler.
C10_AlwaysChannelReply ==
    (req.chan = "done") =>
        /\ reply.status = 200
        /\ (reply.chan = "ussd") => (SubSeq(reply.body, 1, 4) \in {"CON ", "END "})
        /\ (reply.chan = "wa") => (reply.body = Ack)
        /\ (reply.chan = "ivr") =>
                (Head(reply.body) = "<Gather>" \/ reply.body[Len(reply.body)] = "<Hangup/>")

\* a USSD request for a plate that has been answered
UssdPlateDone == Finished("ussd") /\ req.was.intent \in StoreIntents

\* C11: when a read of the transaction store fails during a USSD pay, amount or
\* duration request (the existence check in Operator B's store or the lookup of
\* the latest transaction), the reply is the generic error reply; the failure is
\* not reported as "Vehicle not found!" and the request does not go on as if the
\* plate were absent from Operator B's store.
C11_StoreFailureIsErrorReply ==
    (UssdPlateDone /\ (Failed("is_rng") \/ Failed("get_tx")))
        => /\ reply.body = ErrorReply
           /\ reply.body # NotFound
           /\ Failed("is_rng") => ~(Did("link") \/ Did("push") \/ Did("get_tx"))

\* C12: a failure of the phone-linking update or of the WhatsApp notification
\* send does not reach the response path: the request is answered as it is when
\* the step succeeds (the acknowledgement on WhatsApp, after the later messages
\* were processed; on USSD the reply of the push or of the fee or duration
\* computation, which still take place).
C12_BestEffortNeverSurfaces ==
    (req.chan = "done" /\ (Failed("link") \/ Failed("template")))
        => /\ reply.status = 200
           /\ (reply.chan = "wa") => (reply.body = Ack)
           /\ (reply.chan = "ussd") =>
                /\ (req.was.intent = "InitiatePayment") => Did("push")
                /\ (req.was.intent = "ComputeAmount") => Did("get_tx")
                /\ (reply.body = ErrorReply) => Failed("push")

\* C13: when the fee lookup of Operator B fails, the amount used is 0: the amount
\* request is answered with the zero-amount message for the plate, not with the
\* error reply.
C13_RngLookupDefaultsToZero ==
    (UssdPlateDone /\ req.was.intent = "ComputeAmount" /\ Failed("rng_fee"))
        => /\ reply.body = RngAmountReply(req.was.carno, 0)
           /\ reply.body # ErrorReply

\* a USSD pay request for a plate that is not in Operator B's store, answered
\* after its push was attempted
UssdPayPushed ==
    /\ Finished("ussd") /\ req.was.intent = "InitiatePayment"
    /\ req.was.carno \notin storeB
    /\ Did("push")

\* C14: for a USSD pay request of a plate outside Operator B's store, every push
\* outcome other than code 200, a transport failure included, means "push not
\* sent": the reply is never the generic error reply, it is the free-period
\* fallback with r = max(0, 30 - minutes parked) when the plate has a
\* transaction, and the success reply is given exactly when the code is 200.
C14_PushNotSentFallback ==
    UssdPayPushed =>
        /\ reply.body # ErrorReply
        /\ (reply.body = PushSent) <=> ~Failed("push")
        /\ (Failed("push") /\ req.was.known) =>
                \E i \in RowsOf(req.was.carno) :
                    LET parked == (req.was.now_dt - storeA[i].time_in) \div 60
                        r == IF 30 - parked > 0 THEN 30 - parked ELSE 0
                    IN  reply.body = "END You are within free 30 mins. " \o ToString(r)
                                     \o " mins left to exit free."

\* no call of a store failed, and the push API, if called, answered with a code
NoCollaboratorFailed == \A s \in log.steps : s.step # "push" => s.ok

\* C15: a USSD pay, amount or duration request whose plate has no transaction in
\* either store, with no collaborator failing, is answered "END Vehicle not
\* found!", whatever the payment initiator answers.
C15_UnknownPlateNotFound ==
    (/\ UssdPlateDone
     /\ req.was.carno \notin storeB
     /\ RowsOf(req.was.carno) = {}
     /\ NoCollaboratorFailed)
        => reply.body = NotFound

PromptIntents == {"ShowWelcomeMenu", "ShowPayPrompt", "ShowAmountPrompt", "ShowDurationPrompt"}

\* C16: every USSD reply begins with "CON " or "END "; it begins with "CON "
\* exactly for the intents that expect further input (the welcome menu and the
\* three plate prompts) and with "END " for every other outcome.
C16_ConOrEnd ==
    Finished("ussd") =>
        /\ reply.status = 200
        /\ Len(reply.body) > 4
        /\ SubSeq(reply.body, 1, 4) \in {"CON ", "END "}
        /\ (SubSeq(reply.body, 1, 4) = "CON ") <=> (req.was.intent \in PromptIntents)

\* the duration prompt, answered with a CON text
C16_Witness ==
    /\ Finished("ussd")
    /\ req.was.intent = "ShowDurationPrompt"
    /\ reply.body = "CON Enter your Plate Number"

\* the second request of a phone call has been answered
Pressed == Finished("ivr") /\ call.fn = "twilio" /\ call.pressed # <<>>

\* the key pressed is the number of a vehicle the caller heard
HeardChoice ==
    /\ IsInt(call.pressed)
    /\ 1 <= IntOf(call.pressed) /\ IntOf(call.pressed) <= Len(call.heard)

\* C17: on the second turn of a call a push is made only for the vehicle that the
\* first turn of the same call announced under the number pressed, also when
\* other requests link vehicles to the caller's phone between the two turns; any
\* other digit string is answered "Invalid selection." or "Invalid input." and
\* no push is made.
C17_PushOnlyForAnnounced ==
    Pressed =>
        /\ \A p \in log.pushes :
                HeardChoice /\ p.carno = call.heard[IntOf(call.pressed)]
        /\ (~HeardChoice /\ reply.status = 200) =>
                /\ log.pushes = {}
                /\ reply.body \in {InvalidSelection, InvalidInput}

\* the webhook is working on a message: at its SELECT or past it
WaAtStore == req.chan = "wa" /\ req.pc \in {"select", "push", "template", "commit"}

\* C18: only a message of two or more words whose command is time, amount or pay
\* reaches the store or the push; for the three words pay <plate> <phone> the
\* plate looked up and pushed is the second word upper-cased and the push goes
\* to the third word; for the two words pay <plate> it goes to the sender.
C18_WhatsAppGrammar ==
    WaAtStore =>
        /\ Len(req.parts) >= 2
        /\ req.parts[1] \in {WordTime, WordAmount, WordPay}
        /\ (req.pc \in {"push", "template"}) => (req.cmd = WordPay)
        /\ (req.cmd = WordPay /\ Len(req.parts) = 3) =>
                /\ req.carno_raw = Upper(req.parts[2])
                /\ req.pay_phone = req.parts[3]
        /\ (req.cmd = WordPay /\ Len(req.parts) = 2) =>
                /\ req.carno_raw = Upper(req.parts[2])
                /\ req.pay_phone = req.phone
        /\ (req.pc = "template") =>
                [carno |-> Upper(req.parts[2]), phone |-> req.pay_phone] \in log.pushes

NoStoreFailed == \A s \in log.steps : s.step \notin {"push", "push_answer"} => s.ok

\* the request left the caller's phone on the plate's most recent transaction:
\* on the latest row now, or on the row that was the latest when it looked
LinkedToCaller(r) ==
    \/ \E i \in LatestOf(r.carno) : storeA[i].mobile_number = r.phone
    \/ \E i \in log.updates :
            storeA[i].vehicle_number = r.carno /\ storeA[i].mobile_number = r.phone

\* C19: after a USSD pay, amount or duration request for a plate that is not in
\* Operator B's store and has a transaction in Operator A's, with no store
\* failure, the mobile_number of the plate's most recent transaction is the
\* caller's phone, for each of the three intents.
C19_PhoneLinked ==
    (/\ UssdPlateDone
     /\ req.was.carno \notin storeB
     /\ req.was.known
     /\ NoStoreFailed)
        => LinkedToCaller(req.was)

\* a USSD amount request for a plate of Operator B's store, answered
RngAmountDone ==
    /\ Finished("ussd") /\ req.was.intent = "ComputeAmount"
    /\ req.was.carno \in storeB

\* C20: a USSD amount request for a plate of Operator B's store is answered from
\* Operator B's fee lookup: the reply reports the amount that lookup returned
\* for the upper-cased plate ("No charge" when it is 0), Operator A's lookup and
\* the fee engine are not consulted and Operator A's store is not changed, also
\* when the plate has a transaction there.
C20_AmountRedirected ==
    RngAmountDone =>
        /\ \E l \in log.lookups :
                /\ l.plate = Upper(req.was.carno)
                /\ reply.body =
                        IF l.amount = 0
                            THEN "END No charge for " \o Str(l.plate) \o ". Within free time."
                        ELSE "END Your amount due for " \o Str(l.plate) \o " is KES "
                             \o ToString(l.amount)
        /\ ~Did("get_tx")
        /\ ~Did("link")
        /\ log.updates = {}

\* the normalization of the specification, written out: all spaces removed,
\* then one trailing '#' removed when there is one, then the whitespace around
\* the text trimmed
NoSpaces(t) == SelectSeq(t, LAMBDA c : c # " ")
DropOneHash(t) ==
    IF t # <<>> /\ t[Len(t)] = "#" THEN SubSeq(t, 1, Len(t) - 1) ELSE t
Trimmed(t) ==
    LET keep == {i \in 1..Len(t) : t[i] \notin {" ", "\t", "\n"}}
    IN  IF keep = {} THEN <<>>
        ELSE SubSeq(t, CHOOSE i \in keep : \A j \in keep : i <= j,
                       CHOOSE i \in keep : \A j \in keep : j <= i)
OneHashNormalized(t) == Trimmed(DropOneHash(NoSpaces(t)))

\* C21: the text the intent is resolved on is the input without its spaces,
\* without one trailing '#' when it had one (never more than one) and trimmed;
\* 98*1*k # resolves to InitiatePayment with the plate K, and an input that
\* still ends in '#' after one '#' was removed matches no path.
C21_OneTrailingHash ==
    RouterDone =>
        LET norm == OneHashNormalized(ReadText(call.via, call.raw))
        IN  /\ call.ret.text = norm
            /\ (norm # <<>> /\ norm[Len(norm)] = "#") => (call.ret.intent = "Invalid")
            /\ (call.raw = PayHead \o <<"k", " ", "#">>) =>
                    /\ call.ret.intent = "InitiatePayment"
                    /\ call.ret.plate = <<"K">>

(***************************************************************************)
(* Calls of the IVR's enumeration on stores of up to MaxRows transactions, *)
(* created one after the other, each linked to a phone or to none.         *)
(***************************************************************************)
EnumMobiles == {NULL, <<"7">>, <<"8">>}
\* the rows of a store: ids in the order of creation, a minute apart from 12:00
EnumStore(f) ==
    [i \in DOMAIN f |-> [id |-> i, vehicle_number |-> f[i].plate,
                         time_in |-> 129600 + 60 * i, mobile_number |-> f[i].mobile]]
EnumStores ==
    UNION {{EnumStore(f) : f \in [1..n -> [plate : Plates, mobile : EnumMobiles]]} :
             n \in 0..MaxRows}

EnumInit ==
    /\ storeA \in EnumStores
    /\ storeB = {KB}
    /\ req = Idle
    /\ reply = NoReply
    /\ log = EmptyLog
    /\ call \in {[fn |-> "get_vehicles", from |-> from, ret |-> Pending] :
                    from \in CallerPhones}

\* twilio_ivr() without Digits, up to its script
EnumCall ==
    /\ call.fn = "get_vehicles" /\ ~call.ret.done
    /\ LET vehicles == get_vehicles(LStripPlus(call.from))
       IN  call' = [call EXCEPT !.ret =
                        [done |-> TRUE, vehicles |-> vehicles,
                         script |-> IF vehicles = <<>> THEN NoVehicles
                                    ELSE GatherScript(vehicles)]]
    /\ UNCHANGED <<storeA, storeB, req, reply, log>>

SpecEnum == EnumInit /\ [][EnumCall]_vars

EnumDone == call.fn = "get_vehicles" /\ call.ret.done

MaxOf(ids) == CHOOSE i \in ids : \A j \in ids : j <= i
\* the id of a plate's most recently created transaction: among those linked to
\* the phone, and among all of the plate
NewestLinked(phone, plate) == MaxOf(LinkedRows(phone, plate))
Newest(plate) == MaxOf(RowsOf(plate))

\* C22: the enumeration lists each plate linked to the caller's phone exactly
\* once, the plate with the most recently created transaction first, and the
\* script announces the first 9 of them at most, numbered from 1.
C22_MostRecentFirst ==
    EnumDone =>
        LET phone == LStripPlus(call.from)
            v == call.ret.vehicles
            n == IF Len(v) < 9 THEN Len(v) ELSE 9
        IN  /\ {v[i] : i \in 1..Len(v)} = LinkedPlates(phone)
            /\ Len(v) = Cardinality(LinkedPlates(phone))
            /\ \/ \A i, j \in 1..Len(v) :
                    i < j => NewestLinked(phone, v[i]) > NewestLinked(phone, v[j])
               \/ \A i, j \in 1..Len(v) : i < j => Newest(v[i]) > Newest(v[j])
            /\ (v # <<>>) =>
                    /\ Len(call.ret.script) = n + 3
                    /\ \A i \in 1..n :
                            call.ret.script[i + 2] =
                                "For " \o Str(v[i]) \o ", press " \o ToString(i) \o "."

\* a USSD amount request for a plate that is only in Operator A's store,
\* answered from the transaction its lookup returned
AmountFromTx ==
    /\ Finished("ussd") /\ req.was.intent = "ComputeAmount"
    /\ req.was.carno \notin storeB
    /\ log.reads # {}

LinkedAndRead ==
    /\ Finished("ussd") /\ req.was.intent \in {"InitiatePayment", "ComputeAmount"}
    /\ log.updates # {}
    /\ log.reads # {}

\* C24: within one USSD amount or pay request the transaction the caller's
\* phone is linked to is the transaction whose entry time is used for the fee or
\* the free-period computation, also when a newer transaction of the plate is
\* inserted between the request's store accesses.  (Two transactions with the
\* same entry time are taken as one here.)
C24_SameTransaction ==
    LinkedAndRead =>
        \A u \in log.updates, r \in log.reads :
            u = r \/ storeA[u].time_in = storeA[r].time_in

\* a USSD duration request, or a pay request whose push was not accepted,
\* answered from the transaction its lookup returned
MinutesFromTx ==
    /\ Finished("ussd") /\ req.was.intent \in {"ComputeDuration", "InitiatePayment"}
    /\ log.reads # {}

\* C25: the duration a USSD duration request reports and the minutes of the pay
\* fallback are not negative and are the minute duration the fee engine uses
\* for the same entry time and the same now, also when the entry time is later
\* than now.
C25_MinutesAsFeeEngine ==
    MinutesFromTx =>
        \E i \in log.reads :
            LET d == DurationMinutes(storeA[i].time_in, req.was.now_dt)
                left == IF 30 - d > 0 THEN 30 - d ELSE 0
            IN  /\ d >= 0
                /\ (req.was.intent = "ComputeDuration") =>
                        (reply.body = "END Stayed for: " \o convert(d))
                /\ (req.was.intent = "InitiatePayment") =>
                        (reply.body = "END You are within free 30 mins. " \o ToString(left)
                                      \o " mins left to exit free.")

====
